---- MODULE Spec2Model ----
(***************************************************************************)
(* The HTTP-to-gRPC gateway of src/proxy_server.py: the two module-level   *)
(* channel globals, the request handlers of ProxyHandler, and serve().     *)
(*                                                                         *)
(* A path is the sequence path.split('/') of its segments, so that         *)
(* "/tasks/t1/history" is <<"", "tasks", "t1", "history">>, "/" is         *)
(* <<"", "">> and "foo" is <<"foo">>.  Segments are compared as whole      *)
(* strings, which is what ==, startswith('/tasks/') and endswith('/x')     *)
(* come to on such sequences.                                              *)
(***************************************************************************)
EXTENDS Integers, Sequences, FiniteSets, TLC

\* ------------------------------------------------------------------ bounds

\* Handler instances (one ProxyHandler object is created per request).
NHandlers == 2
\* Longest list of tasks / outputs a persistence reply carries.
MaxItems == 1
\* Ticks a handler is followed while it is blocked in an RPC call.
MaxWait == 3
\* The bound C5 speaks of, in ticks: a reply or an error by then.
RpcDeadline == 2

Handlers == 1..NHandlers

\* ------------------------------------------------------------- the inputs

Backends == {"backend", "database"}

None == 0

P_root == <<"", "">>
P_index == <<"", "index.html">>
P_appjs == <<"", "app.js">>
P_tasks == <<"", "tasks">>
P_tasks_slash == <<"", "tasks", "">>
P_Tasks_upper == <<"", "Tasks">>
P_start == <<"", "tasks", "start">>
P_history == <<"", "tasks", "t1", "history">>
P_status == <<"", "tasks", "t1", "status">>
P_short_history == <<"", "tasks", "history">>
P_deep_history == <<"", "tasks", "t1", "x", "history">>
P_missing == <<"", "does-not-exist">>
P_escape == <<"", "..", "secret">>
P_noslash == <<"foo">>

GetPaths ==
    { P_root, P_index, P_appjs, P_tasks, P_tasks_slash, P_Tasks_upper, P_start,
      P_history, P_status, P_short_history, P_deep_history, P_missing,
      P_escape, P_noslash }

\* parse_qs(query): a sequence of <<key, raw value>> pairs.
NoQuery == <<>>
Queries == { NoQuery, << <<"limit", "5">> >>, << <<"limit", "abc">> >> }

\* The POST body: no Content-Length header, bytes that are not JSON, JSON
\* that is not an object, or a JSON object with the keys of `has`.
NoBody == [kind |-> "none", has |-> {}, task_prompt |-> "", max_steps |-> 0]
Bodies ==
    { [kind |-> "no_length", has |-> {}, task_prompt |-> "", max_steps |-> 0],
      [kind |-> "malformed", has |-> {}, task_prompt |-> "", max_steps |-> 0],
      [kind |-> "array", has |-> {}, task_prompt |-> "", max_steps |-> 0],
      [kind |-> "object", has |-> {}, task_prompt |-> "", max_steps |-> 0],
      [kind |-> "object", has |-> {"task_prompt"}, task_prompt |-> "",
       max_steps |-> 0],
      [kind |-> "object", has |-> {"task_prompt"}, task_prompt |-> "go",
       max_steps |-> 0],
      [kind |-> "object", has |-> {"task_prompt", "max_steps"},
       task_prompt |-> "go", max_steps |-> 3] }

Req(m, p, q, b) == [method |-> m, path |-> p, query |-> q, body |-> b]

Requests ==
    { Req("GET", p, q, NoBody) : p \in GetPaths, q \in Queries }
    \cup { Req("POST", P_start, NoQuery, b) : b \in Bodies }
    \cup { Req("POST", p, NoQuery, NoBody) : p \in {P_tasks, P_missing} }
    \cup { Req("OPTIONS", p, NoQuery, NoBody) : p \in {P_start, P_missing} }
    \cup { Req("PUT", p, NoQuery, NoBody) : p \in {P_tasks, P_missing} }

\* The requests of the runs in which handlers overlap.
ConcRequests ==
    { Req("POST", P_start, NoQuery, b) :
        b \in { x \in Bodies : x.kind = "object" /\ x.has = {"task_prompt"}
                                /\ x.task_prompt # "" } }
    \cup { Req("GET", p, NoQuery, NoBody) : p \in {P_status, P_tasks, P_missing} }

NoRequest == Req("", <<>>, NoQuery, NoBody)

\* ----------------------------------------------------------- file system

\* The working directory of the process; relative paths resolve from here,
\* and it is the root the assets are served from.
Cwd == <<"www">>
Dirs == { <<>>, Cwd }
NoEntry == <<"<noent>">>

\* The files on disk: the assets, and one file outside the root.
FileSystems ==
    { { Cwd \o <<"index.html">>, Cwd \o <<"app.js">>, <<"secret">> },
      { Cwd \o <<"app.js">>, <<"secret">> } }

\* The walk from directory cur along the segments: "" and "." stay, ".."
\* goes up, a name goes down; a step from what is no directory fails.
RECURSIVE Walk(_, _)
Walk(cur, segs) ==
    IF segs = <<>> THEN cur
    ELSE IF cur \notin Dirs THEN NoEntry
    ELSE LET s == Head(segs) IN
         IF s = "" \/ s = "." THEN Walk(cur, Tail(segs))
         ELSE IF s = ".."
              THEN Walk(IF cur = <<>> THEN cur ELSE SubSeq(cur, 1, Len(cur) - 1),
                        Tail(segs))
              ELSE Walk(cur \o <<s>>, Tail(segs))

\* The location a relative path names; the empty string names nothing.
Resolve(rel) == IF rel = <<"">> THEN NoEntry ELSE Walk(Cwd, rel)

exists(fs, rel) == Resolve(rel) \in fs \cup Dirs
isfile(fs, rel) == Resolve(rel) \in fs

\* path.lstrip('/')
RECURSIVE lstrip(_)
lstrip(p) == IF Len(p) > 1 /\ p[1] = "" THEN lstrip(Tail(p)) ELSE p

\* filename.endswith(ext), the file names being whole segments.
Extension(name) ==
    CASE name = "index.html" -> ".html"
      [] name = "app.js" -> ".js"
      [] name = "style.css" -> ".css"
      [] OTHER -> ""

\* ------------------------------------------------------------- responses

\* send_cors_headers: the three headers it adds to the response.
send_cors_headers ==
    { <<"Access-Control-Allow-Origin", "*">>,
      <<"Access-Control-Allow-Methods", "GET, POST, OPTIONS">>,
      <<"Access-Control-Allow-Headers", "Content-Type">> }

NoResponse == [code |-> 0, headers |-> {}, kind |-> "none", body |-> <<>>]

\* BaseHTTPRequestHandler.send_error, which ProxyHandler does not override:
\* an HTML error page with the headers of the base class only.
send_error(code) ==
    [code |-> code,
     headers |-> { <<"Content-Type", "text/html;charset=utf-8">>,
                   <<"Connection", "close">> },
     kind |-> "html_error", body |-> <<>>]

send_error_response(code, message) ==
    [code |-> code,
     headers |-> { <<"Content-Type", "application/json">> } \cup send_cors_headers,
     kind |-> "envelope", body |-> [error |-> message]]

send_json_response(kind, data) ==
    [code |-> 200,
     headers |-> { <<"Content-Type", "application/json">> } \cup send_cors_headers,
     kind |-> kind, body |-> data]

do_OPTIONS_response ==
    [code |-> 200, headers |-> send_cors_headers, kind |-> "preflight",
     body |-> <<>>]

content_type(filename) ==
    LET ext == Extension(filename[Len(filename)]) IN
    CASE ext = ".html" -> "text/html"
      [] ext = ".css" -> "text/css"
      [] ext = ".js" -> "application/javascript"
      [] OTHER -> "application/octet-stream"

\* serve_static_file(filename): the response it sends; the body is the
\* location of the file whose bytes were read.
serve_static_file(fs, filename) ==
    LET filepath == filename IN
    IF ~exists(fs, filepath) THEN send_error(404)
    ELSE IF ~isfile(fs, filepath) THEN send_error(500)
    ELSE [code |-> 200,
          headers |-> { <<"Content-Type", content_type(filename)>> }
                      \cup send_cors_headers,
          kind |-> "static", body |-> Resolve(filepath)]

\* ------------------------------------------------------------ translators

DefaultMaxSteps == 15
DefaultLimit == 50
DefaultOffset == 0

\* data.get(key, default) on the decoded body
get_task_prompt(data) ==
    IF "task_prompt" \in data.has THEN data.task_prompt ELSE ""
get_max_steps(data) ==
    IF "max_steps" \in data.has THEN data.max_steps ELSE DefaultMaxSteps

StartTaskRequest(data) ==
    [task_prompt |-> get_task_prompt(data), max_steps |-> get_max_steps(data),
     user_id |-> "default", browser_name |-> "chrome"]

\* query_params.get(key, [default])[0], before int()
HasParam(q, key) == \E i \in 1..Len(q) : q[i][1] = key
RawParam(q, key) == q[CHOOSE i \in 1..Len(q) : q[i][1] = key][2]

\* int(s): the strings it accepts, and their values.
IsIntLiteral(s) == s \in {"0", "5"}
IntOf(s) == CASE s = "0" -> 0 [] s = "5" -> 5 [] OTHER -> 0

\* Whether int() of the parameter raises ValueError.
IntRaises(q, key) == HasParam(q, key) /\ ~IsIntLiteral(RawParam(q, key))
IntParam(q, key, default) ==
    IF HasParam(q, key) THEN IntOf(RawParam(q, key)) ELSE default

ListTasksRequest(q) ==
    [user_id |-> IF HasParam(q, "user_id") THEN RawParam(q, "user_id") ELSE "",
     limit |-> IntParam(q, "limit", DefaultLimit),
     offset |-> IntParam(q, "offset", DefaultOffset)]

\* path.split('/')[2]
task_id_of(path) == path[3]

\* The opaque blobs of the persistence service: none (the empty string of an
\* unset field), a JSON text, a text that is not JSON.
Blob_absent == ""
Blob_json == "{\"a\":1}"
Blob_text == "not json"
Blobs == { Blob_absent, Blob_json, Blob_text }

SeqsUpTo(S, n) == UNION { [1..k -> S] : k \in 0..n }

Tasks == [task_id : {"t1"}, status : {"completed"}, final_result : Blobs]
Outputs == [output_id : {"o1"}, step_number : {1}, step_data : Blobs]

Replies(o) ==
    CASE o = "StartTask" ->
           [success : BOOLEAN, task_id : {"", "t1", "t2"}, message : {"m"}]
      [] o = "GetTaskStatus" ->
           [success : BOOLEAN, status : {"", "running"}, message : {"m"}]
      [] o = "ListTasks" -> [tasks : SeqsUpTo(Tasks, MaxItems)]
      [] o = "GetTaskHistory" ->
           [success : BOOLEAN, outputs : SeqsUpTo(Outputs, MaxItems)]

\* A JSON value of the answer: <<"str", s>>, <<"bool", b>>, <<"num", n>>.
JStr(s) == <<"str", s>>
JBool(b) == <<"bool", b>>
JNum(n) == <<"num", n>>

start_task_result(response) ==
    [success |-> JBool(response.success), task_id |-> JStr(response.task_id),
     message |-> JStr(response.message)]

task_status_result(response) ==
    [success |-> JBool(response.success), status |-> JStr(response.status),
     message |-> JStr(response.message)]

task_json(task) ==
    [task_id |-> JStr(task.task_id), status |-> JStr(task.status),
     final_result |-> JStr(task.final_result)]

output_json(output) ==
    [output_id |-> JStr(output.output_id),
     step_data |-> JStr(output.step_data),
     step_number |-> JNum(output.step_number)]

\* What each handler sends for the reply of its RPC call.
translate(o, response) ==
    CASE o = "StartTask" ->
           send_json_response("start", start_task_result(response))
      [] o = "GetTaskStatus" ->
           send_json_response("status", task_status_result(response))
      [] o = "ListTasks" ->
           send_json_response("tasks",
               [i \in 1..Len(response.tasks) |-> task_json(response.tasks[i])])
      [] o = "GetTaskHistory" ->
           IF ~response.success
           THEN send_error_response(404, "Task not found")
           ELSE send_json_response("outputs",
                    [i \in 1..Len(response.outputs) |->
                        output_json(response.outputs[i])])

BackendOf(o) ==
    IF o \in {"StartTask", "GetTaskStatus"} THEN "backend" ELSE "database"

\* The request message a handler builds for its RPC call.
rpc_message(o, r) ==
    CASE o = "StartTask" -> StartTaskRequest(r.body)
      [] o = "GetTaskStatus" -> [task_id |-> task_id_of(r.path)]
      [] o = "GetTaskHistory" -> [task_id |-> task_id_of(r.path)]
      [] o = "ListTasks" -> ListTasksRequest(r.query)

\* ------------------------------------------------------------------ state

VARIABLES
    phase,              \* "serving", or "stopped" once serve() has returned
    files,              \* the files on disk
    reachable,          \* per backend: whether it answers RPC calls
    backend_channel,    \* the global _backend_channel (None or a channel)
    database_channel,   \* the global _database_channel
    made,               \* per backend: channels grpc.insecure_channel built
    closed,             \* the channels close() was called on
    handed,             \* the channels get_*_stub ever returned a stub of
    pc,                 \* per handler: where it is
    req,                \* per handler: the request it serves
    cached_before,      \* per handler: the channel globals when it was taken
    op,                 \* per handler: the RPC operation of its route
    built,              \* per handler: its get_*_stub call built the channel
    stub,               \* per handler: the channel its stub is bound to
    sent,               \* per handler: the RPC calls it issued
    reply,              \* per handler: the reply of its RPC call
    waited,             \* per handler: ticks spent blocked in the RPC call
    resp                \* per handler: the HTTP response it sent

globals == <<phase, files, reachable, backend_channel, database_channel, made,
             closed, handed>>
locals == <<pc, req, cached_before, op, built, stub, sent, reply, waited, resp>>
vars == <<globals, locals>>

NoReply == <<>>
NoSnapshot == [b \in Backends |-> None]

Init ==
    /\ phase = "serving"
    /\ files \in FileSystems
    /\ reachable \in [Backends -> BOOLEAN]
    /\ backend_channel = None
    /\ database_channel = None
    /\ made = [b \in Backends |-> 0]
    /\ closed = {}
    /\ handed = {}
    /\ pc = [t \in Handlers |-> "idle"]
    /\ req = [t \in Handlers |-> NoRequest]
    /\ cached_before = [t \in Handlers |-> NoSnapshot]
    /\ op = [t \in Handlers |-> "none"]
    /\ built = [t \in Handlers |-> FALSE]
    /\ stub = [t \in Handlers |-> None]
    /\ sent = [t \in Handlers |-> <<>>]
    /\ reply = [t \in Handlers |-> NoReply]
    /\ waited = [t \in Handlers |-> 0]
    /\ resp = [t \in Handlers |-> NoResponse]

Cached(b) == IF b = "backend" THEN backend_channel ELSE database_channel

\* ------------------------------------------------- the ends of a handler

\* The handler sends response r and returns.
Respond(t, r) ==
    /\ pc' = [pc EXCEPT ![t] = "done"]
    /\ resp' = [resp EXCEPT ![t] = r]
    /\ waited' = [waited EXCEPT ![t] = 0]
    /\ UNCHANGED <<globals, req, cached_before, op, built, stub, sent, reply>>

\* An exception leaves the handler: socketserver's handle_error logs it and
\* the connection is closed with no response.
Crash(t) ==
    /\ pc' = [pc EXCEPT ![t] = "crashed"]
    /\ UNCHANGED <<globals, req, cached_before, op, built, stub, sent, reply,
                   waited, resp>>

\* The handler of RPC operation o starts: its first statement is get_*_stub().
Enter(t, o) ==
    /\ pc' = [pc EXCEPT ![t] = "stub_test"]
    /\ op' = [op EXCEPT ![t] = o]
    /\ UNCHANGED <<globals, req, cached_before, built, stub, sent, reply,
                   waited, resp>>

\* --------------------------------------------------------------- routing

startswith_slash(path) == Len(path) >= 2 /\ path[1] = ""
\* path.startswith('/tasks/')
startswith_tasks(path) == Len(path) >= 3 /\ path[1] = "" /\ path[2] = "tasks"
\* path.endswith('/' + last)
endswith(path, last) == Len(path) >= 2 /\ path[Len(path)] = last

\* The server takes the next connection and reads its request line.
Receive(t, r) ==
    /\ phase = "serving"
    /\ pc[t] = "idle"
    /\ pc' = [pc EXCEPT ![t] = "recv"]
    /\ req' = [req EXCEPT ![t] = r]
    /\ cached_before' = [cached_before EXCEPT ![t] =
                            [b \in Backends |-> Cached(b)]]
    /\ UNCHANGED <<globals, op, built, stub, sent, reply, waited, resp>>

\* HTTPServer.serve_forever: one request at a time, the next one after the
\* handler of the last has returned.
Accept(t) ==
    /\ \A u \in Handlers : pc[u] = "idle"
    /\ \E r \in Requests : Receive(t, r)

\* Handlers on threads of their own: requests are taken while others are
\* being served.
AcceptConcurrent(t) ==
    \E r \in ConcRequests : Receive(t, r)

do_OPTIONS(t) ==
    /\ pc[t] = "recv"
    /\ req[t].method = "OPTIONS"
    /\ Respond(t, do_OPTIONS_response)

\* A method with no do_<METHOD>: BaseHTTPRequestHandler answers 501.
UnsupportedMethod(t) ==
    /\ pc[t] = "recv"
    /\ req[t].method \notin {"GET", "POST", "OPTIONS"}
    /\ Respond(t, send_error(501))

handle_api_get(t, path, query_params) ==
    IF path = P_tasks
    THEN IF IntRaises(query_params, "limit") \/ IntRaises(query_params, "offset")
         THEN Crash(t)
         ELSE Enter(t, "ListTasks")
    ELSE IF startswith_tasks(path) /\ endswith(path, "history")
    THEN Enter(t, "GetTaskHistory")
    ELSE IF startswith_tasks(path) /\ endswith(path, "status")
    THEN Enter(t, "GetTaskStatus")
    ELSE Respond(t, send_error(404))

do_GET(t) ==
    /\ pc[t] = "recv"
    /\ req[t].method = "GET"
    /\ LET path == req[t].path IN
       IF path = P_root \/ path = P_index
       THEN Respond(t, serve_static_file(files, <<"index.html">>))
       ELSE IF startswith_slash(path)
       THEN LET file_path == lstrip(path) IN
            IF exists(files, file_path) /\ isfile(files, file_path)
            THEN Respond(t, serve_static_file(files, file_path))
            ELSE handle_api_get(t, path, req[t].query)
       ELSE Respond(t, send_error(404))

\* handle_start_task up to its get_backend_stub() call: int() of the
\* Content-Length header and json.loads of the body, whose exceptions the
\* handler's except clause answers.
handle_start_task(t) ==
    IF req[t].body.kind \in {"none", "no_length", "malformed"}
    THEN Respond(t, send_error_response(500, "Error"))
    ELSE Enter(t, "StartTask")

do_POST(t) ==
    /\ pc[t] = "recv"
    /\ req[t].method = "POST"
    /\ IF req[t].path = P_start
       THEN handle_start_task(t)
       ELSE Respond(t, send_error(404))

\* ------------------------------------------------------- channel manager

\* The test dropped: the channel is built on every call.
channel_is_None_dropped(c) == TRUE

\* `if _backend_channel is None`
channel_is_None(c) == c = None

\* get_*_stub, the test of the global.
StubTest(t) ==
    /\ pc[t] = "stub_test"
    /\ pc' = [pc EXCEPT ![t] =
                IF channel_is_None(Cached(BackendOf(op[t])))
                THEN "stub_make" ELSE "stub_ret"]
    /\ UNCHANGED <<globals, req, cached_before, op, built, stub, sent, reply,
                   waited, resp>>

\* get_*_stub, the assignment: grpc.insecure_channel builds a channel (it
\* does not connect) and the global is set to it.
StubMake(t) ==
    /\ pc[t] = "stub_make"
    /\ LET b == BackendOf(op[t])
           c == made[b] + 1
       IN /\ made' = [made EXCEPT ![b] = c]
          /\ IF b = "backend"
             THEN backend_channel' = c /\ UNCHANGED database_channel
             ELSE database_channel' = c /\ UNCHANGED backend_channel
    /\ built' = [built EXCEPT ![t] = TRUE]
    /\ pc' = [pc EXCEPT ![t] = "stub_ret"]
    /\ UNCHANGED <<phase, files, reachable, closed, handed, req, cached_before,
                   op, stub, sent,
                   reply, waited, resp>>

\* get_*_stub, the return: a stub bound to what the global holds now.
StubReturn(t) ==
    /\ pc[t] = "stub_ret"
    /\ LET b == BackendOf(op[t]) IN
       /\ stub' = [stub EXCEPT ![t] = Cached(b)]
       /\ handed' = handed \cup { <<b, Cached(b)>> }
    /\ pc' = [pc EXCEPT ![t] = "call"]
    /\ UNCHANGED <<phase, files, reachable, backend_channel, database_channel,
                   made, closed, req, cached_before, op, built, sent, reply,
                   waited, resp>>

\* ------------------------------------------------------------ the RPC call

\* The handler builds its request message and calls the stub.  A body that
\* is JSON but no object has no .get (AttributeError), and grpc refuses a
\* call on a closed channel (ValueError): the except clause answers both.
\* The call carries no timeout.
CallRpc(t) ==
    /\ pc[t] = "call"
    /\ LET b == BackendOf(op[t]) IN
       IF op[t] = "StartTask" /\ req[t].body.kind # "object"
       THEN Respond(t, send_error_response(500, "Error"))
       ELSE IF <<b, stub[t]>> \in closed
       THEN Respond(t, send_error_response(500, "Error"))
       ELSE /\ sent' = [sent EXCEPT ![t] =
                          Append(@, [rpc |-> op[t], chan |-> <<b, stub[t]>>,
                                     msg |-> rpc_message(op[t], req[t])])]
            /\ pc' = [pc EXCEPT ![t] = "rpc_wait"]
            /\ UNCHANGED <<globals, req, cached_before, op, built, stub, reply,
                           waited, resp>>

\* The translated reply kept where every handler waiting on the same
\* operation reads it.
RpcReply_shared(t) ==
    /\ pc[t] = "rpc_wait"
    /\ reachable[BackendOf(op[t])]
    /\ \E response \in Replies(op[t]) :
         /\ reply' = [reply EXCEPT ![t] = response]
         /\ resp' = [u \in Handlers |->
                       IF pc[u] = "rpc_wait" /\ op[u] = op[t]
                       THEN translate(op[t], response) ELSE resp[u]]
    /\ pc' = [pc EXCEPT ![t] = "done"]
    /\ waited' = [waited EXCEPT ![t] = 0]
    /\ UNCHANGED <<globals, req, cached_before, op, built, stub, sent>>

\* The backend replies and the handler translates the reply.
RpcReply(t) ==
    /\ pc[t] = "rpc_wait"
    /\ reachable[BackendOf(op[t])]
    /\ \E response \in Replies(op[t]) :
         /\ reply' = [reply EXCEPT ![t] = response]
         /\ resp' = [resp EXCEPT ![t] = translate(op[t], response)]
    /\ pc' = [pc EXCEPT ![t] = "done"]
    /\ waited' = [waited EXCEPT ![t] = 0]
    /\ UNCHANGED <<globals, req, cached_before, op, built, stub, sent>>

\* The except clause also drops the cached channel of the failed call.
RpcError_drops_channel(t) ==
    /\ pc[t] = "rpc_wait"
    /\ pc' = [pc EXCEPT ![t] = "done"]
    /\ resp' = [resp EXCEPT ![t] = send_error_response(500, "gRPC Error")]
    /\ waited' = [waited EXCEPT ![t] = 0]
    /\ IF BackendOf(op[t]) = "backend"
       THEN backend_channel' = None /\ UNCHANGED database_channel
       ELSE database_channel' = None /\ UNCHANGED backend_channel
    /\ UNCHANGED <<phase, files, reachable, made, closed, handed, req,
                   cached_before, op, built, stub, sent, reply>>

\* The call raises grpc.RpcError (the transport failed, or the backend
\* answered with an error status).
RpcError(t) ==
    /\ pc[t] = "rpc_wait"
    /\ Respond(t, send_error_response(500, "gRPC Error"))

\* Time passes and the call has not returned.
RpcBlock(t) ==
    /\ pc[t] = "rpc_wait"
    /\ waited[t] < MaxWait
    /\ waited' = [waited EXCEPT ![t] = @ + 1]
    /\ UNCHANGED <<globals, pc, req, cached_before, op, built, stub, sent,
                   reply, resp>>

\* The connection is done with and the handler object is dropped.
Finish(t) ==
    /\ phase = "serving"
    /\ pc[t] \in {"done", "crashed"}
    /\ pc' = [pc EXCEPT ![t] = "idle"]
    /\ req' = [req EXCEPT ![t] = NoRequest]
    /\ cached_before' = [cached_before EXCEPT ![t] = NoSnapshot]
    /\ op' = [op EXCEPT ![t] = "none"]
    /\ built' = [built EXCEPT ![t] = FALSE]
    /\ stub' = [stub EXCEPT ![t] = None]
    /\ sent' = [sent EXCEPT ![t] = <<>>]
    /\ reply' = [reply EXCEPT ![t] = NoReply]
    /\ waited' = [waited EXCEPT ![t] = 0]
    /\ resp' = [resp EXCEPT ![t] = NoResponse]
    /\ UNCHANGED globals

\* ------------------------------------------------------------ environment

BackendToggle(b) ==
    /\ phase = "serving"
    /\ reachable' = [reachable EXCEPT ![b] = ~@]
    /\ UNCHANGED <<phase, files, backend_channel, database_channel, made, closed,
                   handed, locals>>

\* ----------------------------------------------------------------- serve

\* The second close() left out.
channels_to_close_backend_only ==
    IF backend_channel # None THEN { <<"backend", backend_channel>> } ELSE {}

\* The channels serve() closes in its KeyboardInterrupt clause.
channels_to_close ==
    (IF backend_channel # None THEN { <<"backend", backend_channel>> } ELSE {})
    \cup (IF database_channel # None
          THEN { <<"database", database_channel>> } ELSE {})

\* KeyboardInterrupt reaches serve_forever: the handler in progress is
\* abandoned with its locals (KeyboardInterrupt is no Exception, so no except
\* clause of a handler takes it), the cached channels are closed,
\* httpd.shutdown() returns at once and serve() returns: the process ends.
KeyboardInterrupt ==
    /\ phase = "serving"
    /\ phase' = "stopped"
    /\ closed' = closed \cup channels_to_close
    /\ pc' = [t \in Handlers |-> IF pc[t] = "idle" THEN "idle" ELSE "aborted"]
    /\ req' = [t \in Handlers |-> NoRequest]
    /\ cached_before' = [t \in Handlers |-> NoSnapshot]
    /\ op' = [t \in Handlers |-> "none"]
    /\ built' = [t \in Handlers |-> FALSE]
    /\ stub' = [t \in Handlers |-> None]
    /\ sent' = [t \in Handlers |-> <<>>]
    /\ reply' = [t \in Handlers |-> NoReply]
    /\ waited' = [t \in Handlers |-> 0]
    /\ resp' = [t \in Handlers |-> NoResponse]
    /\ UNCHANGED <<files, reachable, backend_channel, database_channel, made,
                   handed>>

Next ==
    \/ \E t \in Handlers : Accept(t)
    \/ \E t \in Handlers : do_OPTIONS(t)
    \/ \E t \in Handlers : do_GET(t)
    \/ \E t \in Handlers : do_POST(t)
    \/ \E t \in Handlers : UnsupportedMethod(t)
    \/ \E t \in Handlers : StubTest(t)
    \/ \E t \in Handlers : StubMake(t)
    \/ \E t \in Handlers : StubReturn(t)
    \/ \E t \in Handlers : CallRpc(t)
    \/ \E t \in Handlers : RpcReply(t)
    \/ \E t \in Handlers : RpcError(t)
    \/ \E t \in Handlers : RpcBlock(t)
    \/ \E t \in Handlers : Finish(t)
    \/ \E b \in Backends : BackendToggle(b)
    \/ KeyboardInterrupt

\* The gateway as serve() runs it.
Spec == Init /\ [][Next]_vars

NextConcurrent ==
    \/ \E t \in Handlers : AcceptConcurrent(t)
    \/ \E t \in Handlers : do_GET(t)
    \/ \E t \in Handlers : do_POST(t)
    \/ \E t \in Handlers : StubTest(t)
    \/ \E t \in Handlers : StubMake(t)
    \/ \E t \in Handlers : StubReturn(t)
    \/ \E t \in Handlers : CallRpc(t)
    \/ \E t \in Handlers : RpcReply(t)
    \/ \E t \in Handlers : RpcError(t)
    \/ \E t \in Handlers : RpcBlock(t)
    \/ \E t \in Handlers : Finish(t)
    \/ \E b \in Backends : BackendToggle(b)
    \/ KeyboardInterrupt

\* The same handlers with requests served concurrently, each on a thread of
\* its own.
SpecConcurrent == Init /\ [][NextConcurrent]_vars

\* ------------------------------------------------------------ properties

Active(t) == pc[t] \in {"stub_test", "stub_make", "stub_ret", "call", "rpc_wait"}
Holding(t) == pc[t] \in {"call", "rpc_wait", "done"} /\ stub[t] # None

\* C1: with requests served one after the other, at most one channel is
\* ever built per backend, and every stub get_backend_stub /
\* get_database_stub has returned is bound to the channel the cache holds.
C1_OneChannelPerBackend ==
    \A b \in Backends :
        /\ made[b] <= 1
        /\ \A h \in handed : h[1] = b => h[2] = Cached(b)
        /\ \A t \in Handlers :
             Holding(t) /\ BackendOf(op[t]) = b => stub[t] = Cached(b)

\* A later acquisition of the persistence channel: the call built nothing
\* and returned the channel the first call had cached.
C1_Reused ==
    \E t \in Handlers :
        /\ pc[t] = "call"
        /\ BackendOf(op[t]) = "database"
        /\ ~built[t]
        /\ made["database"] = 1
        /\ stub[t] = database_channel

\* C2: when handlers make their first get_*_stub call for a backend
\* concurrently, exactly one channel is built for it and all of them use
\* that one channel.
C2_OneChannelUnderConcurrentFirstUse ==
    \A b \in Backends :
        /\ made[b] <= 1
        /\ \A t, u \in Handlers :
             Holding(t) /\ Holding(u) /\ BackendOf(op[t]) = b
                 /\ BackendOf(op[u]) = b
             => stub[t] = stub[u]

StartRequest(t) ==
    /\ pc[t] \notin {"idle", "aborted"}
    /\ req[t].method = "POST"
    /\ req[t].path = P_start

\* The body is a JSON object whose task_prompt is missing or empty.
PromptMissing(body) ==
    /\ body.kind = "object"
    /\ ("task_prompt" \notin body.has \/ body.task_prompt = "")

\* C4: a POST /tasks/start whose task_prompt is missing or empty issues no
\* RPC call, and is answered with an error envelope.
C4_NoRpcWithoutPrompt ==
    \A t \in Handlers :
        StartRequest(t) /\ PromptMissing(req[t].body)
        => /\ sent[t] = <<>>
           /\ pc[t] = "done" => resp[t].kind = "envelope"

\* C5: a GET /tasks/{id}/status made while the task backend is unreachable
\* is not left blocked in its RPC call past the deadline.
C5_StatusAnsweredByDeadline ==
    \A t \in Handlers :
        pc[t] = "rpc_wait" /\ op[t] = "GetTaskStatus" /\ ~reachable["backend"]
        => waited[t] <= RpcDeadline

AssetRoot == Cwd
Within(root, file) ==
    Len(file) > Len(root) /\ SubSeq(file, 1, Len(root)) = root

\* C6: every file the static asset server returns lies inside the asset
\* root.
C6_StaticStaysInRoot ==
    \A t \in Handlers :
        resp[t].kind = "static" => Within(AssetRoot, resp[t].body)

\* The route table of the design: exact, case-sensitive, {id} one segment.
InRouteTable(r) ==
    \/ r.method = "OPTIONS"
    \/ r.method = "GET" /\ r.path \in {P_root, P_index, P_tasks}
    \/ /\ r.method = "GET"
       /\ Len(r.path) = 4
       /\ r.path[1] = "" /\ r.path[2] = "tasks" /\ r.path[3] # ""
       /\ r.path[4] \in {"history", "status"}
    \/ r.method = "POST" /\ r.path = P_start

\* A GET whose path names an existing file.  (One outside the asset root
\* is C6's case and is left out of C7's here, which makes C7 the weaker.)
NamesFile(r) ==
    /\ r.method = "GET"
    /\ startswith_slash(r.path)
    /\ isfile(files, lstrip(r.path))

\* C7: a request that matches no row of the route table and names no
\* existing file is answered 404, whatever its query string and method,
\* and no API handler runs for it.
C7_UnmatchedIs404 ==
    \A t \in Handlers :
        /\ pc[t] \notin {"idle", "recv", "aborted"}
        /\ ~InRouteTable(req[t])
        /\ ~NamesFile(req[t])
        => /\ op[t] = "none"
           /\ pc[t] = "done" => resp[t].code = 404

\* The three headers of the design's HTTP surface.
PermissiveCors ==
    { <<"Access-Control-Allow-Origin", "*">>,
      <<"Access-Control-Allow-Methods", "GET, POST, OPTIONS">>,
      <<"Access-Control-Allow-Headers", "Content-Type">> }

\* C8: every response sent carries the three CORS headers.
C8_EveryResponseCarriesCors ==
    \A t \in Handlers :
        pc[t] = "done" => PermissiveCors \subseteq resp[t].headers

JNull == <<"null">>
\* The field is omitted or null; the empty string of an unset protobuf
\* field is let pass as well.
OmittedOrNull(obj, f) ==
    f \notin DOMAIN obj \/ obj[f] = JNull \/ obj[f] = JStr("")

\* C9: when the reply of StartTask, GetTaskStatus or GetTaskHistory carries
\* success = false, the payload fields of the answer are omitted or null.
C9_FailureSurfacesOnlyMessage ==
    \A t \in Handlers :
        /\ pc[t] = "done"
        /\ op[t] \in {"StartTask", "GetTaskStatus", "GetTaskHistory"}
        /\ reply[t] # NoReply
        /\ ~reply[t].success
        => /\ resp[t].kind = "start" => OmittedOrNull(resp[t].body, "task_id")
           /\ resp[t].kind = "status" => OmittedOrNull(resp[t].body, "status")
           /\ resp[t].kind # "outputs"

\* json.loads accepts the text.
IsJsonText(blob) == blob = Blob_json

\* The three cases of the design: nothing (null; the empty string of an
\* unset field is let pass), a structured value, a string.
BlobByKind(blob, out) ==
    IF blob = Blob_absent THEN out = JNull \/ out = JStr("")
    ELSE IF IsJsonText(blob) THEN out[1] = "json"
    ELSE out = JStr(blob)

\* C10: in every translated Task and TaskOutput the blob is embedded by
\* kind: absent as no value, JSON text as a structured value, any other
\* text as the raw string.
C10_BlobsEmbeddedByKind ==
    \A t \in Handlers :
        /\ resp[t].kind = "tasks" =>
             \A i \in 1..Len(resp[t].body) :
                 BlobByKind(reply[t].tasks[i].final_result,
                            resp[t].body[i].final_result)
        /\ resp[t].kind = "outputs" =>
             \A i \in 1..Len(resp[t].body) :
                 BlobByKind(reply[t].outputs[i].step_data,
                            resp[t].body[i].step_data)

\* A request for one of the API rows of the route table.
ApiRoute(r) ==
    /\ InRouteTable(r)
    /\ r.method \in {"GET", "POST"}
    /\ r.path \notin {P_root, P_index}

\* C11: a request for an API route never ends with an exception leaving
\* its handler, and whenever it is answered with a failure the answer is a
\* JSON error envelope.
C11_FailuresBecomeEnvelopes ==
    \A t \in Handlers :
        pc[t] \notin {"idle", "recv", "aborted"} /\ ApiRoute(req[t])
        => /\ pc[t] # "crashed"
           /\ pc[t] = "done" /\ resp[t].code >= 400 => resp[t].kind = "envelope"

\* The request of handler t has ended in a failure: an exception left the
\* handler, or the answer is an error.
Failed(t) == pc[t] = "crashed" \/ (pc[t] = "done" /\ resp[t].code >= 400)

StartAnswered(t) == StartRequest(t) /\ pc[t] = "done" /\ reply[t] # NoReply

\* C13: with POST /tasks/start requests in flight together, each answer is
\* the one built from the reply to the handler's own StartTask call, two
\* callers whose calls were given different task ids receive different
\* ids, and a caller whose call is still outstanding has been sent nothing.
C13_EachCallerGetsOwnReply ==
    /\ \A t \in Handlers :
         StartAnswered(t) =>
             /\ resp[t].code = 200 /\ resp[t].kind = "start"
             /\ resp[t].body.success = JBool(reply[t].success)
             /\ resp[t].body.task_id = JStr(reply[t].task_id)
             /\ resp[t].body.message = JStr(reply[t].message)
    /\ \A t, u \in Handlers :
         StartAnswered(t) /\ StartAnswered(u)
             /\ reply[t].task_id # reply[u].task_id
         => resp[t].body.task_id # resp[u].body.task_id
    /\ \A t \in Handlers :
         StartRequest(t) /\ pc[t] = "rpc_wait"
         => resp[t] = NoResponse /\ reply[t] = NoReply

\* Two POST /tasks/start requests, both taken before the backend channel
\* existed and so in flight together, answered with the ids t1 and t2.
C13_TwoStartsAnswered ==
    \E t, u \in Handlers :
        /\ StartAnswered(t) /\ StartAnswered(u)
        /\ cached_before[t]["backend"] = None
        /\ cached_before[u]["backend"] = None
        /\ reply[t].task_id = "t1" /\ reply[u].task_id = "t2"
        /\ resp[t].body.task_id = JStr("t1")
        /\ resp[u].body.task_id = JStr("t2")

\* The RPC operation of the route-table row a request matches.
RouteOp(r) ==
    IF ~ApiRoute(r) THEN "none"
    ELSE IF r.method = "POST" THEN "StartTask"
    ELSE IF r.path = P_tasks THEN "ListTasks"
    ELSE IF r.path[4] = "history" THEN "GetTaskHistory"
    ELSE "GetTaskStatus"

\* The service that exposes an operation.
ExposedBy(rpc) ==
    IF rpc \in {"StartTask", "GetTaskStatus"} THEN "backend" ELSE "database"

\* C14: a request issues at most one RPC call, the one of its route and on
\* the service that exposes it, none when it matches no API route, and it
\* ends with exactly one response.
C14_OneRpcOneResponse ==
    \A t \in Handlers :
        pc[t] \notin {"idle", "aborted"} =>
            /\ Len(sent[t]) <= 1
            /\ \A i \in 1..Len(sent[t]) :
                 /\ sent[t][i].rpc = RouteOp(req[t])
                 /\ sent[t][i].chan[1] = ExposedBy(sent[t][i].rpc)
            /\ pc[t] \in {"done", "crashed"} =>
                 pc[t] = "done" /\ resp[t] # NoResponse

====
